---- MODULE Spec2Model ----
(***************************************************************************)
(* A model of pyopds2_openlibrary: the Open Library record mapper          *)
(* (OpenLibraryDataRecord.links / images / metadata), the memoized         *)
(* language table (fetch_languages_map, marc_language_to_iso_639_1) and    *)
(* OpenLibraryDataProvider.search.                                         *)
(*                                                                         *)
(* Encoding of Python values.                                              *)
(*   str            a sequence of one-character strings                    *)
(*   Optional[T]    a sequence of length 0 (None) or 1 (the value)         *)
(*   list[T]        a sequence                                             *)
(*   dict           a function whose DOMAIN is the set of keys             *)
(*   enum / MIME    a TLA+ string (never concatenated or searched)         *)
(***************************************************************************)
EXTENDS Integers, Sequences, FiniteSets, TLC

VARIABLES rec, call, out, cache, fetchCount, seen, pc, tdata, tres

vars == <<rec, call, out, cache, fetchCount, seen, pc, tdata, tres>>

(***************************************************************************)
(* Bounds of the model.                                                    *)
(***************************************************************************)
MaxProviders == 2
MaxEditions == 2
MaxAuthors == 2
MaxCodes == 2
MaxLangs == 2
MaxDocs == 2
MaxFetch == 2
NThreads == 2

(***************************************************************************)
(* Optional values and sequences.                                          *)
(***************************************************************************)
None == <<>>
Some(x) == <<x>>
IsNone(o) == Len(o) = 0
Val(o) == o[1]

SeqsUpTo(S, n) == UNION {[1..k -> S] : k \in 0..n}

\* A Python list is truthy iff it is non-empty; an Optional[list] iff it is
\* neither None nor empty.
TruthyList(o) == ~IsNone(o) /\ Len(Val(o)) > 0
\* Optional[int]: truthy iff neither None nor 0.
TruthyInt(o) == ~IsNone(o) /\ Val(o) # 0
\* Optional[str]: truthy iff neither None nor "".
TruthyStr(o) == ~IsNone(o) /\ Len(Val(o)) > 0

(***************************************************************************)
(* Strings.                                                                *)
(***************************************************************************)
URL == <<"h","t","t","p","s",":","/","/","o","p","e","n","l","i","b","r","a","r","y",".","o","r","g">>
JsonSuffix == <<".","j","s","o","n">>
AcqRel == <<"h","t","t","p",":","/","/","o","p","d","s","-","s","p","e","c",".","o","r","g","/","a","c","q","u","i","s","i","t","i","o","n","/">>
CoverBase == <<"h","t","t","p","s",":","/","/","c","o","v","e","r","s",".","o","p","e","n","l","i","b","r","a","r","y",".","o","r","g","/","b","/","i","d","/">>
CoverSuffix == <<"-","L",".","j","p","g">>
AuthorsPath == <<"/","a","u","t","h","o","r","s","/">>
NoneStr == <<"N","o","n","e">>
RelSelf == <<"s","e","l","f">>
RelAlternate == <<"a","l","t","e","r","n","a","t","e">>
RelCover == <<"c","o","v","e","r">>
RelAuthor == <<"a","u","t","h","o","r">>
BookType == <<"h","t","t","p",":","/","/","s","c","h","e","m","a",".","o","r","g","/","B","o","o","k">>

\* s contains sub as a substring (Python's `sub in s`).
Contains(s, sub) ==
    \E i \in 0..(Len(s) - Len(sub)) : SubSeq(s, i + 1, i + Len(sub)) = sub

\* Decimal digits of an integer, as str(n) prints them.
Digit(d) ==
    CASE d = 0 -> "0" [] d = 1 -> "1" [] d = 2 -> "2" [] d = 3 -> "3"
      [] d = 4 -> "4" [] d = 5 -> "5" [] d = 6 -> "6" [] d = 7 -> "7"
      [] d = 8 -> "8" [] d = 9 -> "9"

RECURSIVE StrNat(_)
StrNat(n) == IF n < 10 THEN <<Digit(n)>> ELSE StrNat(n \div 10) \o <<Digit(n % 10)>>

StrInt(n) == IF n < 0 THEN <<"-">> \o StrNat(-n) ELSE StrNat(n)

\* What an f-string prints for an Optional[str] / Optional[int] value.
FmtStr(o) == IF IsNone(o) THEN NoneStr ELSE Val(o)
FmtInt(o) == IF IsNone(o) THEN NoneStr ELSE StrInt(Val(o))

(***************************************************************************)
(* The record types (pydantic models).                                     *)
(***************************************************************************)
EditionProvider(access, format, url) ==
    [access |-> access, format |-> format, url |-> url]

EditionDoc(key, title, subtitle, description, cover_i, language, providers) ==
    [key |-> key, title |-> title, subtitle |-> subtitle,
     description |-> description, cover_i |-> cover_i, language |-> language,
     providers |-> providers]

EditionsResultSet(docs) == [docs |-> docs]

OpenLibraryDataRecord(key, title, subtitle, description, cover_i, language, author_key, author_name, editions, pages) ==
    [key |-> key, title |-> title, subtitle |-> subtitle,
     description |-> description, cover_i |-> cover_i, language |-> language,
     author_key |-> author_key, author_name |-> author_name,
     editions |-> editions, number_of_pages_median |-> pages]

Link(rel, href, type) == [rel |-> rel, href |-> href, type |-> type]

(***************************************************************************)
(* map_ol_format_to_mime: mapping.get(ol_format).                          *)
(***************************************************************************)
map_ol_format_to_mime(ol_format) ==
    CASE ol_format = "web" -> Some("text/html")
      [] ol_format = "pdf" -> Some("application/pdf")
      [] ol_format = "epub" -> Some("application/epub+zip")
      [] ol_format = "audio" -> Some("audio/mpeg")
      [] OTHER -> None

(***************************************************************************)
(* The effective book.                                                     *)
(*   edition = self.editions.docs[0]                                       *)
(*                 if self.editions and self.editions.docs else None       *)
(*   book = edition or self                                                *)
(* A pydantic model instance is always truthy, so `self.editions` is       *)
(* truthy iff it is not None, and `edition or self` is the edition iff     *)
(* there is one.                                                           *)
(***************************************************************************)
FirstEditionWorkOnly(r) == None

FirstEdition(r) ==
    IF ~IsNone(r.editions) /\ TruthyList(Val(r.editions).docs)
    THEN Some(Val(Val(r.editions).docs)[1])
    ELSE None

Book(r) == IF IsNone(FirstEdition(r)) THEN r ELSE Val(FirstEdition(r))

(***************************************************************************)
(* OpenLibraryDataRecord.links                                             *)
(***************************************************************************)
StructuralLinks(book) ==
    << Link(Some(RelSelf), Some(URL \o FmtStr(book.key)), Some("text/html")),
       Link(Some(RelAlternate), Some(URL \o FmtStr(book.key) \o JsonSuffix),
            Some("application/json")) >>

AcquisitionLink(acquisition) ==
    Link(Some(AcqRel \o FmtStr(acquisition.access)),
         acquisition.url,
         IF ~IsNone(acquisition.format)
         THEN map_ol_format_to_mime(Val(acquisition.format))
         ELSE None)

AcquisitionLinksReversed(providers) ==
    [i \in 1..Len(providers) |->
        AcquisitionLink(providers[Len(providers) + 1 - i])]

AcquisitionLinks(providers) ==
    [i \in 1..Len(providers) |-> AcquisitionLink(providers[i])]

links(r) ==
    LET edition == FirstEdition(r)
        book == Book(r)
    IN  IF IsNone(edition) \/ ~TruthyList(Val(edition).providers)
        THEN StructuralLinks(book)
        ELSE StructuralLinks(book) \o AcquisitionLinks(Val(Val(edition).providers))

(***************************************************************************)
(* OpenLibraryDataRecord.images: `if book.cover_i:` tests truthiness.      *)
(***************************************************************************)
images(r) ==
    LET book == Book(r)
    IN  IF TruthyInt(book.cover_i)
        THEN Some(<< Link(Some(RelCover),
                          Some(CoverBase \o FmtInt(book.cover_i) \o CoverSuffix),
                          Some("image/jpeg")) >>)
        ELSE None

(***************************************************************************)
(* The language endpoint's answer, as fetch_languages_map sees it:         *)
(*   status  "ok" or "error" (raise_for_status raises on "error")          *)
(*   body    None when r.json() raises, else the list of language stubs    *)
(* A stub is {key: str, identifiers: dict | None}.                         *)
(***************************************************************************)
LanguageStub(key, identifiers) == [key |-> key, identifiers |-> identifiers]

Response(status, body) == [status |-> status, body |-> body]

Raise(e) == [exc |-> Some(e), val |-> None]
Return(v) == [exc |-> None, val |-> Some(v)]
Raised(r) == ~IsNone(r.exc)

\* key.split("/")[-1]
RECURSIVE LastSegment(_)
LastSegment(s) ==
    IF Len(s) = 0 \/ s[Len(s)] = "/"
    THEN <<>>
    ELSE LastSegment(SubSeq(s, 1, Len(s) - 1)) \o <<s[Len(s)]>>

\* dict.get(k): Optional value.
DictGet(d, k) == IF k \in DOMAIN d THEN Some(d[k]) ELSE None

\* d[k] = v
DictSet(d, k, v) == [x \in (DOMAIN d) \cup {k} |-> IF x = k THEN v ELSE d[x]]

EmptyDict == [x \in {} |-> <<>>]

\* One iteration of the loop over `data`.
AddLanguage(languages, lang) ==
    LET marc_code == LastSegment(lang.key)
        identifiers == lang.identifiers
    IN  IF IsNone(identifiers) \/ DOMAIN Val(identifiers) = {}
        THEN languages
        ELSE LET got == DictGet(Val(identifiers), "iso_639_1")
                 iso_codes == IF IsNone(got) THEN <<>> ELSE Val(got)
             IN  IF Len(iso_codes) > 0
                 THEN DictSet(languages, marc_code, iso_codes[1])
                 ELSE languages

RECURSIVE BuildLanguages(_, _)
BuildLanguages(languages, data) ==
    IF Len(data) = 0
    THEN languages
    ELSE BuildLanguages(AddLanguage(languages, Head(data)), Tail(data))

\* The body of fetch_languages_map, given the endpoint's answer.
fetch_languages_map(resp) ==
    IF resp.status # "ok" THEN Raise("HTTPError")
    ELSE IF IsNone(resp.body) THEN Raise("JSONDecodeError")
    ELSE Return(BuildLanguages(EmptyDict, Val(resp.body)))

(***************************************************************************)
(* @functools.cache on a function of no arguments: `cache` is None until   *)
(* a call has returned, and then holds the returned dict.  A call that     *)
(* raises stores nothing.                                                  *)
(***************************************************************************)
CacheHitNever(c) == FALSE

CacheHit(c) == ~IsNone(c)

MemoizeFailures(c, result) ==
    IF Raised(result) THEN Some(EmptyDict) ELSE Some(Val(result.val))

Memoize(c, result) == IF Raised(result) THEN c ELSE Some(Val(result.val))

\* What the ghost field `fetch` of a call's outcome records: whether the call
\* issued the network request and how the request ended.
FetchKind(resp) ==
    IF resp.status # "ok" THEN "http_error"
    ELSE IF IsNone(resp.body) THEN "bad_json" ELSE "ok"

\* One call of the memoized fetch_languages_map() with the cache in state c.
\* On a miss the body runs: `fetched` is what it raises or returns for the
\* endpoint's answer, and `kind` how the request ended.
CachedFetch(c, fetched, kind) ==
    IF CacheHit(c)
    THEN [cache |-> c, result |-> Return(Val(c)), fetches |-> 0, fetch |-> "none"]
    ELSE [cache |-> Memoize(c, fetched), result |-> fetched, fetches |-> 1,
          fetch |-> kind]

\* marc_language_to_iso_639_1: fetch_languages_map().get(marc_code)
marc_language_to_iso_639_1(marc_code, c, fetched, kind) ==
    LET f == CachedFetch(c, fetched, kind)
    IN  [cache |-> f.cache, fetches |-> f.fetches, fetch |-> f.fetch,
         result |-> IF Raised(f.result) THEN f.result
                    ELSE Return(DictGet(Val(f.result.val), marc_code))]

(***************************************************************************)
(* OpenLibraryDataRecord.metadata                                          *)
(***************************************************************************)
Contributor(name, key) ==
    [name |-> name,
     links |-> << Link(Some(RelAuthor), Some(URL \o AuthorsPath \o key),
                       Some("text/html")) >>]

Min(a, b) == IF a < b THEN a ELSE b

\* zip(a, b) of two lists
Zip(a, b) == [i \in 1..Min(Len(a), Len(b)) |-> <<a[i], b[i]>>]

\* get_authors(): zip() raises TypeError when author_key is None.
get_authors(r) ==
    IF TruthyList(r.author_name)
    THEN IF IsNone(r.author_key)
         THEN Raise("TypeError")
         ELSE LET pairs == Zip(Val(r.author_name), Val(r.author_key))
              IN  Return(Some([i \in 1..Len(pairs) |->
                                  Contributor(pairs[i][1], pairs[i][2])]))
    ELSE Return(None)

\* The codes the comprehension iterates over: (book.language or [])
LanguageSource(r) ==
    IF TruthyList(Book(r).language) THEN Val(Book(r).language) ELSE <<>>

\* The filter of the comprehension: `if (lang := ...)` keeps truthy values.
KeepLanguageNotNone(lang) == ~IsNone(lang)

KeepLanguage(lang) == TruthyStr(lang)

\* [lang for marc_lang in codes if (lang := table.get(marc_lang))]
RECURSIVE TranslateAll(_, _)
TranslateAll(codes, table) ==
    IF Len(codes) = 0
    THEN <<>>
    ELSE LET lang == DictGet(table, Head(codes))
         IN  (IF KeepLanguage(lang) THEN <<Val(lang)>> ELSE <<>>)
             \o TranslateAll(Tail(codes), table)

Metadata(type, title, subtitle, author, description, language, numberOfPages) ==
    [type |-> type, title |-> title, subtitle |-> subtitle, author |-> author,
     description |-> description, language |-> language,
     numberOfPages |-> numberOfPages]

\* metadata() with the cache in state c.  The arguments of Metadata(...) are
\* evaluated in order: get_authors() first, then the language comprehension,
\* whose first translate call populates the cache when it is empty.
metadata(r, c, fetched, kind) ==
    LET authors == get_authors(r)
        book == Book(r)
        codes == LanguageSource(r)
        f == CachedFetch(c, fetched, kind)
    IN  IF Raised(authors)
        THEN [cache |-> c, fetches |-> 0, fetch |-> "none", result |-> authors]
        ELSE IF Len(codes) = 0
        THEN [cache |-> c, fetches |-> 0, fetch |-> "none",
              result |-> Return(Metadata(BookType, book.title, book.subtitle,
                                         Val(authors.val), book.description,
                                         <<>>, r.number_of_pages_median))]
        ELSE IF Raised(f.result)
        THEN [cache |-> f.cache, fetches |-> f.fetches, fetch |-> f.fetch,
              result |-> f.result]
        ELSE [cache |-> f.cache, fetches |-> f.fetches, fetch |-> f.fetch,
              result |-> Return(Metadata(BookType, book.title, book.subtitle,
                                         Val(authors.val), book.description,
                                         TranslateAll(codes, Val(f.result.val)),
                                         r.number_of_pages_median))]

(***************************************************************************)
(* The inputs of the model.                                                *)
(***************************************************************************)
WorkKey == <<"/","w","o","r","k","s","/","O","L","1","W">>
EditionKey == <<"/","b","o","o","k","s","/","O","L","2","M">>
OtherEditionKey == <<"/","b","o","o","k","s","/","O","L","3","M">>
WorkTitle == <<"W">>
EditionTitle == <<"E">>
Url1 == <<"u","1">>
Url2 == <<"u","2">>
AccessOpen == <<"o","p","e","n">>
AccessBorrow == <<"b","o","r","r","o","w">>

ENG == <<"e","n","g">>
ZXX == <<"z","x","x">>
XYZ == <<"x","y","z">>
Codes == {ENG, ZXX, XYZ}

CoverIds == {None, Some(0), Some(7), Some(12)}

Providers ==
    { EditionProvider(Some(AccessOpen), Some("web"), Some(Url1)),
      EditionProvider(Some(AccessBorrow), Some("epub"), Some(Url2)),
      EditionProvider(None, None, Some(Url1)),
      EditionProvider(Some(AccessOpen), Some("pdf"), Some(Url2)) }

ProviderLists == {None} \cup {Some(ps) : ps \in SeqsUpTo(Providers, MaxProviders)}

LanguageLists == {None} \cup {Some(cs) : cs \in SeqsUpTo(Codes, MaxCodes)}

\* A further edition of the same work; only the first edition is ever read.
OtherEdition ==
    EditionDoc(Some(OtherEditionKey), Some(<<"O">>), None, None, Some(99),
               Some(<<ZXX>>),
               Some(<<EditionProvider(Some(AccessBorrow), Some("audio"), Some(Url2))>>))

\* The `editions` field: absent, without docs, with an empty docs list, or with
\* a first edition from `firsts` followed by further editions.
EditionsFields(firsts) ==
    {None, Some(EditionsResultSet(None)), Some(EditionsResultSet(Some(<<>>)))}
    \cup { Some(EditionsResultSet(Some(<<e>> \o [i \in 1..k |-> OtherEdition]))) :
              e \in firsts, k \in 0..(MaxEditions - 1) }

\* Records for links() and images().
LinkEditions ==
    { EditionDoc(k, None, None, None, c, None, ps) :
         k \in {None, Some(EditionKey)}, c \in CoverIds, ps \in ProviderLists }

LinkRecords ==
    { OpenLibraryDataRecord(k, t, None, None, c, None, None, None, eds, None) :
         k \in {None, Some(WorkKey)}, t \in {None, Some(WorkTitle)},
         c \in CoverIds, eds \in EditionsFields(LinkEditions) }

\* Author arrays: None, or the first n of the names / keys below.
AuthorNames == << <<"A","n","n">>, <<"B","o","b">>, <<"C","y">>, <<"D","i">> >>
AuthorKeys == << <<"O","L","1","A">>, <<"O","L","2","A">>, <<"O","L","3","A">>, <<"O","L","4","A">> >>
AuthorLists(all) == {None} \cup {Some(SubSeq(all, 1, n)) : n \in 0..MaxAuthors}

\* Records for metadata(): one family varies the author arrays, the other the
\* language codes of the work and of its first edition.
AuthorRecords ==
    { OpenLibraryDataRecord(Some(WorkKey), Some(WorkTitle), Some(<<"w","s">>),
                            Some(<<"w","d">>), None, Some(<<ENG>>), ak, an, eds, Some(200)) :
         ak \in AuthorLists(AuthorKeys), an \in AuthorLists(AuthorNames),
         eds \in EditionsFields(
                    { EditionDoc(Some(EditionKey), t, Some(<<"e","s">>), None, None,
                                 Some(<<XYZ, ENG>>), None) :
                         t \in {None, Some(EditionTitle)} }) }

LanguageRecord(wl, eds) ==
    OpenLibraryDataRecord(Some(WorkKey), Some(WorkTitle), None, None, None, wl,
                          Some(<<AuthorKeys[1]>>), Some(<<AuthorNames[1]>>), eds, None)

LanguageRecords ==
    { LanguageRecord(wl, eds) : wl \in LanguageLists, eds \in EditionsFields({}) }
    \cup
    { LanguageRecord(wl, eds) :
         wl \in {None, Some(<<ENG>>), Some(<<XYZ, ZXX>>)},
         eds \in EditionsFields(
                    { EditionDoc(Some(EditionKey), Some(EditionTitle), None, None,
                                 None, el, None) : el \in LanguageLists }) }

MetaRecords == AuthorRecords \cup LanguageRecords

\* The few records the translator specification calls metadata() on.
TranslatorRecords ==
    { OpenLibraryDataRecord(Some(WorkKey), Some(WorkTitle), None, None, None, wl,
                            None, None, None, None) :
         wl \in {None, Some(<<ENG, XYZ>>), Some(<<ZXX>>)} }

\* The language endpoint's stubs and answers.
Iso(codes) == Some([iso_639_1 |-> codes])

EngStub == LanguageStub(<<"/","l","/">> \o ENG, Iso(<< <<"e","n">>, <<"e","2">> >>))

LanguageStubs ==
    { EngStub,
      LanguageStub(ENG, Iso(<< <<"x","x">> >>)),
      LanguageStub(<<"/","l","/">> \o ZXX, Iso(<< <<>> >>)) }

\* Stubs the loop skips: identifiers null, identifiers {}, no iso_639_1 key,
\* an empty iso_639_1 list.
SkippedStubs ==
    << LanguageStub(<<"/","l","/","u","n","d">>, None),
       LanguageStub(<<"/","l","/","z","x","x">>, Some(EmptyDict)),
       LanguageStub(<<"/","l","/","c","h","i">>, Some([iso_639_2 |-> << <<"z","h">> >>])),
       LanguageStub(<<"/","l","/","m","u","l">>, Iso(<<>>)) >>

NoRequest == Response("error", None)

Responses ==
    {NoRequest, Response("ok", None), Response("ok", Some(SkippedStubs \o <<EngStub>>))}
    \cup {Response("ok", Some(data)) : data \in SeqsUpTo(LanguageStubs, MaxLangs)}

(***************************************************************************)
(* State.                                                                  *)
(*   rec         the record the calls are made on                          *)
(*   call        the arguments of the search call and the endpoint's answer*)
(*   out         the outcome of the last call: what it raised or returned, *)
(*               and (ghost) whether it issued the language request        *)
(*   cache       functools.cache of fetch_languages_map                    *)
(*   fetchCount  (ghost) requests issued to the language endpoint          *)
(*   seen        (ghost) per code, the result translate last returned      *)
(*   pc, tdata, tres   the threads of the concurrent specification         *)
(***************************************************************************)
Outcome(op, arg, result, fetch) ==
    [op |-> op, arg |-> arg, exc |-> result.exc, val |-> result.val, fetch |-> fetch]

NoCall == Outcome("none", None, [exc |-> None, val |-> None], "none")

NoRecord ==
    OpenLibraryDataRecord(None, None, None, None, None, None, None, None, None, None)

Threads == 1..NThreads

InitCommon ==
    /\ out = NoCall
    /\ cache = None
    /\ fetchCount = 0
    /\ seen = [c \in Codes |-> None]
    /\ pc = [t \in Threads |-> "idle"]
    /\ tdata = [t \in Threads |-> None]
    /\ tres = [t \in Threads |-> None]

(***************************************************************************)
(* Calls on a record.                                                      *)
(***************************************************************************)
Links ==
    /\ out' = Outcome("links", None, Return(links(rec)), "none")
    /\ UNCHANGED <<rec, call, cache, fetchCount, seen, pc, tdata, tres>>

Images ==
    /\ out' = Outcome("images", None, Return(images(rec)), "none")
    /\ UNCHANGED <<rec, call, cache, fetchCount, seen, pc, tdata, tres>>

\* metadata(); resp is the language endpoint's answer, drawn only when the
\* call issues the request.
MetadataCall ==
    \E resp \in Responses :
        \E fetched \in {fetch_languages_map(resp)} :
        \E m \in {metadata(rec, cache, fetched, FetchKind(resp))} :
            /\ (m.fetches = 0) => (resp = NoRequest)
            /\ fetchCount + m.fetches <= MaxFetch
            /\ out' = Outcome("metadata", None, m.result, m.fetch)
            /\ cache' = m.cache
            /\ fetchCount' = fetchCount + m.fetches
            /\ UNCHANGED <<rec, call, seen, pc, tdata, tres>>

\* marc_language_to_iso_639_1(code), called from a single thread.
Translate ==
    \E code \in Codes, resp \in Responses :
        \E fetched \in {fetch_languages_map(resp)} :
        \E t \in {marc_language_to_iso_639_1(code, cache, fetched, FetchKind(resp))} :
            /\ (t.fetches = 0) => (resp = NoRequest)
            /\ fetchCount + t.fetches <= MaxFetch
            /\ out' = Outcome("translate", Some(code), t.result, t.fetch)
            /\ cache' = t.cache
            /\ fetchCount' = fetchCount + t.fetches
            /\ seen' = IF Raised(t.result) THEN seen
                       ELSE [seen EXCEPT ![code] = t.result.val]
            /\ UNCHANGED <<rec, call, pc, tdata, tres>>

(***************************************************************************)
(* OpenLibraryDataProvider.search                                          *)
(*                                                                         *)
(* A JSON value is [t |-> type, v |-> value]; a JSON object is a function  *)
(* from its keys to JSON values.  model_validate gives an absent or null   *)
(* field the default None, takes a value of the field's type, and raises   *)
(* ValidationError on a value of another type.                             *)
(***************************************************************************)
J(t, v) == [t |-> t, v |-> v]

Field(d, f, type) ==
    IF f \notin DOMAIN d THEN Return(None)
    ELSE IF d[f].t = "null" THEN Return(None)
    ELSE IF d[f].t = type THEN Return(Some(d[f].v))
    ELSE Raise("ValidationError")

AnyRaised(results) == \E i \in 1..Len(results) : Raised(results[i])

\* EditionDoc.model_validate
ValidateEdition(d) ==
    LET key == Field(d, "key", "str")
        title == Field(d, "title", "str")
        cover_i == Field(d, "cover_i", "int")
    IN  IF AnyRaised(<<key, title, cover_i>>)
        THEN Raise("ValidationError")
        ELSE Return(EditionDoc(Val(key.val), Val(title.val), None, None,
                               Val(cover_i.val), None, None))

\* EditionsResultSet.model_validate
ValidateEditions(d) ==
    LET docs == Field(d, "docs", "list")
    IN  IF Raised(docs) THEN Raise("ValidationError")
        ELSE IF IsNone(Val(docs.val)) THEN Return(EditionsResultSet(None))
        ELSE LET eds == [i \in 1..Len(Val(Val(docs.val))) |->
                            ValidateEdition(Val(Val(docs.val))[i])]
             IN  IF AnyRaised(eds) THEN Raise("ValidationError")
                 ELSE Return(EditionsResultSet(
                                Some([i \in 1..Len(eds) |-> Val(eds[i].val)])))

\* One iteration of the loop over docs: the editions object, when it is a
\* dict, is validated first; then the record is.  A non-dict, non-null
\* editions value fails the record's validation.
ValidateDoc(doc) ==
    LET editions ==
            IF "editions" \notin DOMAIN doc THEN Return(None)
            ELSE IF doc["editions"].t = "dict"
            THEN LET e == ValidateEditions(doc["editions"].v)
                 IN  IF Raised(e) THEN e ELSE Return(Some(Val(e.val)))
            ELSE IF doc["editions"].t = "null" THEN Return(None)
            ELSE Raise("ValidationError")
        key == Field(doc, "key", "str")
        title == Field(doc, "title", "str")
        cover_i == Field(doc, "cover_i", "int")
    IN  IF AnyRaised(<<editions, key, title, cover_i>>)
        THEN Raise("ValidationError")
        ELSE Return(OpenLibraryDataRecord(Val(key.val), Val(title.val), None, None,
                                          Val(cover_i.val), None, None, None,
                                          Val(editions.val), None))

\* The loop: records.append(...) per doc; the first failure ends the call.
RECURSIVE SearchRecordsSkipInvalid(_)
SearchRecordsSkipInvalid(docs) ==
    IF Len(docs) = 0 THEN Return(<<>>)
    ELSE LET r == ValidateDoc(Head(docs))
             rest == SearchRecordsSkipInvalid(Tail(docs))
         IN  IF Raised(r) THEN rest
             ELSE Return(<<Val(r.val)>> \o Val(rest.val))

RECURSIVE SearchRecords(_)
SearchRecords(docs) ==
    IF Len(docs) = 0 THEN Return(<<>>)
    ELSE LET r == ValidateDoc(Head(docs))
         IN  IF Raised(r) THEN r
             ELSE LET rest == SearchRecords(Tail(docs))
                  IN  IF Raised(rest) THEN rest
                      ELSE Return(<<Val(r.val)>> \o Val(rest.val))

\* The query parameters sent: page = (offset // limit) + 1 if limit else 1;
\* sort only when truthy.
SearchParams(query, limit, offset, sort) ==
    [q |-> query,
     page |-> IF limit # 0 THEN (offset \div limit) + 1 ELSE 1,
     limit |-> limit,
     sort |-> IF TruthyStr(sort) THEN sort ELSE None]

SearchResponse(records, total, query, limit, offset, sort) ==
    [records |-> records, total |-> total, query |-> query, limit |-> limit,
     offset |-> offset, sort |-> sort]

\* search(), given the search endpoint's answer: status, and body None when
\* r.json() raises, else the JSON object.
search(query, limit, offset, sort, resp) ==
    IF resp.status # "ok" THEN Raise("HTTPError")
    ELSE IF IsNone(resp.body) THEN Raise("JSONDecodeError")
    ELSE LET data == Val(resp.body)
             docs == IF "docs" \in DOMAIN data THEN data["docs"] ELSE <<>>
             records == SearchRecords(docs)
             numFound == IF "numFound" \in DOMAIN data THEN data["numFound"] ELSE 0
         IN  IF Raised(records) THEN records
             ELSE Return(SearchResponse(Val(records.val), numFound,
                                        query, limit, offset, sort))

\* The inputs of search.
Queries == { <<"r","o","a","l","d">>, <<"t","e","s","t">> }
Limits == {0, 10, 50}
Offsets == {0, 20}
Sorts == {None, Some(<<>>), Some(<<"r","a","t","i","n","g">>)}

DocKey(n) == <<"/","w","o","r","k","s","/","O","L">> \o StrInt(n) \o <<"W">>
RawEdition == [key |-> J("str", EditionKey), cover_i |-> J("int", 7)]
BadRawEdition == [key |-> J("str", EditionKey), cover_i |-> J("str", <<"x">>)]

RawDocs ==
    { [key |-> J("str", DocKey(1)), title |-> J("str", <<"T","1">>)],
      [key |-> J("str", DocKey(2)), title |-> J("str", <<"T","2">>),
       cover_i |-> J("int", 7),
       editions |-> J("dict", [numFound |-> J("int", 1),
                               docs |-> J("list", <<RawEdition>>)])],
      [key |-> J("str", DocKey(3)), editions |-> J("dict", [numFound |-> J("int", 0)]),
       title |-> J("null", None)],
      [key |-> J("str", DocKey(4)), cover_i |-> J("str", <<"x">>)],
      [key |-> J("str", DocKey(5)),
       editions |-> J("dict", [docs |-> J("list", <<RawEdition, BadRawEdition>>)])],
      [key |-> J("str", DocKey(6)), editions |-> J("str", <<"x">>)] }

SearchBodies ==
    { [numFound |-> 100], [docs |-> <<>>] }
    \cup { [numFound |-> n, docs |-> docs] :
              n \in {0, 100}, docs \in SeqsUpTo(RawDocs, MaxDocs) }

SearchResponses ==
    {Response("error", None), Response("ok", None)}
    \cup {Response("ok", Some(b)) : b \in SearchBodies}

\* A call of search with the answer the search endpoint gives it.
SearchCalls ==
    [query : Queries, limit : Limits, offset : Offsets, sort : Sorts,
     resp : SearchResponses]

NoSearch ==
    [query |-> <<>>, limit |-> 0, offset |-> 0, sort |-> None,
     resp |-> Response("error", None)]

\* search(); `arg` records the query parameters it sent.
Search ==
    /\ out' = Outcome("search",
                      Some(SearchParams(call.query, call.limit, call.offset, call.sort)),
                      search(call.query, call.limit, call.offset, call.sort, call.resp),
                      "none")
    /\ UNCHANGED <<rec, call, cache, fetchCount, seen, pc, tdata, tres>>

(***************************************************************************)
(* Threads calling marc_language_to_iso_639_1 for the first time.  The     *)
(* functools.cache wrapper looks the key up, and on a miss calls the body  *)
(* and then stores what it returned; nothing keeps a second thread from    *)
(* missing while the first is in the body (requests.get blocks and lets    *)
(* other threads run).                                                     *)
(*   pc[t]     "idle", "fetching" (request issued), "built" (the body has  *)
(*             its table), "done" (translate returned), "raised"           *)
(*   tdata[t]  the table thread t's call of the body built                 *)
(*   tres[t]   the table thread t's translate call read                    *)
(***************************************************************************)
Lookup(t) ==
    /\ pc[t] = "idle"
    /\ IF CacheHit(cache)
       THEN /\ pc' = [pc EXCEPT ![t] = "done"]
            /\ tres' = [tres EXCEPT ![t] = cache]
            /\ UNCHANGED fetchCount
       ELSE /\ pc' = [pc EXCEPT ![t] = "fetching"]
            /\ fetchCount' = fetchCount + 1
            /\ UNCHANGED tres
    /\ UNCHANGED <<rec, call, out, cache, seen, tdata>>

Receive(t) ==
    /\ pc[t] = "fetching"
    /\ \E resp \in Responses :
        \E fetched \in {fetch_languages_map(resp)} :
            IF Raised(fetched)
            THEN /\ pc' = [pc EXCEPT ![t] = "raised"]
                 /\ UNCHANGED tdata
            ELSE /\ pc' = [pc EXCEPT ![t] = "built"]
                 /\ tdata' = [tdata EXCEPT ![t] = fetched.val]
    /\ UNCHANGED <<rec, call, out, cache, fetchCount, seen, tres>>

Store(t) ==
    /\ pc[t] = "built"
    /\ cache' = Memoize(cache, Return(Val(tdata[t])))
    /\ tres' = [tres EXCEPT ![t] = tdata[t]]
    /\ pc' = [pc EXCEPT ![t] = "done"]
    /\ UNCHANGED <<rec, call, out, fetchCount, seen, tdata>>

(***************************************************************************)
(* Specifications.                                                         *)
(***************************************************************************)
InitRecord == rec \in LinkRecords /\ call = NoSearch /\ InitCommon
NextRecord == Links \/ Images
SpecRecord == InitRecord /\ [][NextRecord]_vars

InitMetadata == rec \in MetaRecords /\ call = NoSearch /\ InitCommon
NextMetadata == MetadataCall
SpecMetadata == InitMetadata /\ [][NextMetadata]_vars

InitTranslator == rec \in TranslatorRecords /\ call = NoSearch /\ InitCommon
NextTranslator == Translate \/ MetadataCall
SpecTranslator == InitTranslator /\ [][NextTranslator]_vars

InitSearch == rec = NoRecord /\ call \in SearchCalls /\ InitCommon
NextSearch == Search
SpecSearch == InitSearch /\ [][NextSearch]_vars

InitThreads == rec = NoRecord /\ call = NoSearch /\ InitCommon
NextThreads == \E t \in Threads : Lookup(t) \/ Receive(t) \/ Store(t)
SpecThreads == InitThreads /\ [][NextThreads]_vars

(***************************************************************************)
(* What the claims say, stated on the record itself.                       *)
(***************************************************************************)
\* The first edition of the editions block, when the block has one.
ClaimedEditions(r) ==
    IF r.editions = None THEN <<>>
    ELSE IF r.editions[1].docs = None THEN <<>>
    ELSE r.editions[1].docs[1]

ClaimedHasEdition(r) == Len(ClaimedEditions(r)) >= 1

ClaimedBook(r) == IF ClaimedHasEdition(r) THEN ClaimedEditions(r)[1] ELSE r

\* The provider entries of the first edition (none when there is no edition
\* or no provider list).
ClaimedProviders(r) ==
    IF ~ClaimedHasEdition(r) THEN <<>>
    ELSE IF ClaimedEditions(r)[1].providers = None THEN <<>>
    ELSE ClaimedEditions(r)[1].providers[1]

LinksReturned == out.op = "links" /\ out.exc = None
ImagesReturned == out.op = "images" /\ out.exc = None
MetadataReturned == out.op = "metadata" /\ out.exc = None

C7_ImagesForEveryCoverId ==
    ImagesReturned =>
        LET c == ClaimedBook(rec).cover_i
        IN  IF c = None
            THEN out.val[1] = None
            ELSE out.val[1] =
                   << << Link(<<RelCover>>,
                              <<CoverBase \o StrInt(c[1]) \o CoverSuffix>>,
                              <<"image/jpeg">>) >> >>

\* C8 (as claimed, from test_record_links): for a record with a key and a
\* title and no editions block, links() returns at least three links, exactly
\* one has rel=self, and its href contains "opds".
C8_ThreeLinksSelfOpds ==
    (LinksReturned /\ rec.key # None /\ rec.title # None /\ rec.editions = None) =>
        LET ls == out.val[1]
            selfs == {i \in 1..Len(ls) : ls[i].rel = <<RelSelf>>}
        IN  /\ Len(ls) >= 3
            /\ Cardinality(selfs) = 1
            /\ \A i \in selfs : Contains(ls[i].href[1], <<"o","p","d","s">>)

\* The author arrays of the work as lists (an absent array has no entries).
ClaimedList(o) == IF o = None THEN <<>> ELSE o[1]

\* The author list of a returned metadata (None: no authors).
ReturnedAuthors == ClaimedList(out.val[1].author)

\* The returned authors pair the n-th name with the n-th key of the work, up
\* to the length of the shorter array.
AuthorsPairWorkArrays ==
    LET names == ClaimedList(rec.author_name)
        keys == ClaimedList(rec.author_key)
        n == IF Len(names) < Len(keys) THEN Len(names) ELSE Len(keys)
    IN  /\ Len(ReturnedAuthors) = n
        /\ \A i \in 1..n :
              /\ ReturnedAuthors[i].name = names[i]
              /\ ReturnedAuthors[i].links[1].href = <<URL \o AuthorsPath \o keys[i]>>

\* C2 (as claimed): metadata() never raises because of the author arrays,
\* absent or empty arrays included, and the author list has length
\* min(len(author_name), len(author_key)), pairing the n-th name with the n-th
\* key.
C2_AuthorsZipNeverRaises ==
    out.op = "metadata" =>
        /\ out.exc # <<"TypeError">>
        /\ out.exc = None => AuthorsPairWorkArrays

\* The language codes of the effective book and of the work.
ClaimedCodes(r) == ClaimedList(ClaimedBook(r).language)
ClaimedWorkCodes(r) == ClaimedList(r.language)

\* The table values of the codes that are keys of the table, in order.
RECURSIVE TableValues(_, _)
TableValues(codes, table) ==
    IF codes = <<>> THEN <<>>
    ELSE (IF codes[1] \in DOMAIN table THEN <<table[codes[1]]>> ELSE <<>>)
         \o TableValues(Tail(codes), table)

\* The same, leaving out the keys whose table value is the empty string.
RECURSIVE NonEmptyTableValues(_, _)
NonEmptyTableValues(codes, table) ==
    IF codes = <<>> THEN <<>>
    ELSE (IF codes[1] \in DOMAIN table /\ table[codes[1]] # <<>>
          THEN <<table[codes[1]]>> ELSE <<>>)
         \o NonEmptyTableValues(Tail(codes), table)

\* C5 (as claimed): the languages of metadata() are exactly the table values
\* of the input codes that are keys of the table, in input order.
C5_LanguagesAreTableValues ==
    (MetadataReturned /\ cache # None) =>
        out.val[1].language = TableValues(ClaimedCodes(rec), cache[1])

\* C5 (amended): the languages of metadata() are exactly the non-empty table
\* values of the input codes that are keys of the table, in input order; a
\* code with no mapping, or mapped to the empty string, is dropped.
C5_LanguagesAreNonEmptyTableValues ==
    (MetadataReturned /\ cache # None) =>
        out.val[1].language = NonEmptyTableValues(ClaimedCodes(rec), cache[1])

\* C5 witness: metadata() returned one language for two input codes, the
\* first of which has no mapping in the populated table.
C5_Witness ==
    /\ MetadataReturned
    /\ cache # None
    /\ Len(ClaimedCodes(rec)) = 2
    /\ ClaimedCodes(rec)[1] \notin DOMAIN cache[1]
    /\ Len(out.val[1].language) = 1

\* Title, subtitle and description of the effective book; authors of the work.
C6_BookFieldsAndWorkAuthors ==
    /\ out.val[1].title = ClaimedBook(rec).title
    /\ out.val[1].subtitle = ClaimedBook(rec).subtitle
    /\ out.val[1].description = ClaimedBook(rec).description
    /\ AuthorsPairWorkArrays

\* The returned languages are the translation of `codes` (no request is made,
\* and no table exists, only when there are no codes).
LanguagesTranslate(codes) ==
    IF cache = None
    THEN codes = <<>> /\ out.val[1].language = <<>>
    ELSE out.val[1].language = NonEmptyTableValues(codes, cache[1])

\* C6 (as claimed): the effective book is the first edition when there is
\* one, else the work; title, subtitle and description come from the
\* effective book, authors and languages from the work.
C6_LanguagesFromWork ==
    MetadataReturned =>
        /\ C6_BookFieldsAndWorkAuthors
        /\ LanguagesTranslate(ClaimedWorkCodes(rec))

\* C6 (amended): the effective book is the first edition when there is one,
\* else the work; title, subtitle, description and languages come from the
\* effective book, authors from the work.
C6_LanguagesFromEffectiveBook ==
    MetadataReturned =>
        /\ C6_BookFieldsAndWorkAuthors
        /\ LanguagesTranslate(ClaimedCodes(rec))

\* C6 witness: metadata() returned for a work with a first edition whose
\* title and translated languages differ from the work's, with one author.
C6_Witness ==
    /\ MetadataReturned
    /\ cache # None
    /\ ClaimedHasEdition(rec)
    /\ out.val[1].title = <<EditionTitle>>
    /\ rec.title = <<WorkTitle>>
    /\ Len(ReturnedAuthors) = 1
    /\ out.val[1].language # <<>>
    /\ out.val[1].language # NonEmptyTableValues(ClaimedWorkCodes(rec), cache[1])

\* C3: once a population fetch has succeeded, no further request is issued,
\* the table never changes, and a code translated before translates to the
\* same result.
C3_FetchedOnce ==
    [][cache # None =>
          /\ fetchCount' = fetchCount
          /\ cache' = cache
          /\ \A c \in Codes : seen[c] # None => seen'[c] = seen[c]]_vars

\* C3 witness: a translate call was served from the populated table, without
\* a request, and returned the result recorded for its code.
C3_Witness ==
    /\ out.op = "translate"
    /\ out.exc = None
    /\ out.fetch = "none"
    /\ cache # None
    /\ fetchCount >= 1
    /\ seen[out.arg[1]] = out.val

\* A call whose population fetch failed.
FetchFailed == out.fetch \in {"http_error", "bad_json"}

\* C4: a failed population fetch is raised to the caller of translate and of
\* metadata(), nothing is memoized, and the next translate call issues the
\* request again.
C4_FailurePropagates ==
    /\ [](FetchFailed =>
            /\ out.op \in {"translate", "metadata"}
            /\ out.exc = (IF out.fetch = "http_error" THEN <<"HTTPError">>
                          ELSE <<"JSONDecodeError">>)
            /\ out.val = None
            /\ cache = None)
    /\ [][(FetchFailed /\ out'.op = "translate") =>
             out'.fetch # "none" /\ fetchCount' = fetchCount + 1]_vars

\* C4 witness: a translate call raised for a failed request, and it was the
\* second request, the first one having failed too.
C4_Witness ==
    /\ out.op = "translate"
    /\ FetchFailed
    /\ out.exc # None
    /\ cache = None
    /\ fetchCount = 2

SearchCalled == out.op = "search"

\* C9: search() either raises, returning nothing, or returns one record per
\* element of docs, in order, with numFound as total and the caller's query,
\* limit, offset and sort; a non-success status always raises, and an empty
\* docs array gives zero records.
C9_SearchAllOrNothing ==
    SearchCalled =>
        LET body == call.resp.body
            docs == IF body # None /\ "docs" \in DOMAIN body[1]
                    THEN body[1]["docs"] ELSE <<>>
        IN  \/ out.exc # None /\ out.val = None
            \/ /\ out.exc = None
               /\ call.resp.status = "ok"
               /\ body # None
               /\ Len(out.val[1].records) = Len(docs)
               /\ \A i \in 1..Len(docs) :
                     out.val[1].records[i].key = <<docs[i]["key"].v>>
               /\ "numFound" \in DOMAIN body[1] =>
                     out.val[1].total = body[1]["numFound"]
               /\ out.val[1].query = call.query
               /\ out.val[1].limit = call.limit
               /\ out.val[1].offset = call.offset
               /\ out.val[1].sort = call.sort

\* C9 witness: a search whose response holds a valid doc followed by one that
\* fails validation raised, returning nothing.
C9_Witness ==
    /\ SearchCalled
    /\ call.resp.status = "ok"
    /\ call.resp.body # None
    /\ "docs" \in DOMAIN call.resp.body[1]
    /\ Len(call.resp.body[1]["docs"]) = 2
    /\ call.resp.body[1]["docs"][1]["key"].v = DocKey(1)
    /\ out.exc = <<"ValidationError">>
    /\ out.val = None

\* C10 (as claimed): when several threads make their first translate call
\* together, at most one request is issued and all of them read the same
\* table.
C10_SingleFlight ==
    /\ fetchCount <= 1
    /\ \A t1, t2 \in Threads :
          (pc[t1] = "done" /\ pc[t2] = "done") => tres[t1] = tres[t2]

====
